---- MODULE Spec2Model ----
(***************************************************************************)
(* Address registry of src/api.py: the table `addresses`, the handlers     *)
(* insert_address and update_address at the granularity of their SQL       *)
(* statements, and the code generation of insert_address as a function of  *)
(* the sector string and the prefix count.                                 *)
(*                                                                         *)
(* Text that the program inspects character by character (sector, codigo)  *)
(* is a sequence of one-character strings; other text is an opaque string. *)
(* An Optional value is <<>> (None) or <<v>> (the value v).                *)
(***************************************************************************)
EXTENDS Integers, Sequences, FiniteSets, Bags, TLC

VARIABLES store, inflight, resp, lastGen, since, gSector, gCount, gCode

vars == <<store, inflight, resp, lastGen, since, gSector, gCount, gCode>>
dbVars == <<store, inflight, resp, lastGen, since>>
genVars == <<gSector, gCount, gCode>>

None == <<>>
Some(v) == <<v>>

\* ------------------------------------------------------------------ text

LowerLetters == <<"a","b","c","d","e","f","g","h","i","j","k","l","m",
                  "n","o","p","q","r","s","t","u","v","w","x","y","z">>
UpperLetters == <<"A","B","C","D","E","F","G","H","I","J","K","L","M",
                  "N","O","P","Q","R","S","T","U","V","W","X","Y","Z">>
Digits == <<"0","1","2","3","4","5","6","7","8","9">>

Range(s) == {s[i] : i \in DOMAIN s}

IndexIn(c, s) == IF c \in Range(s) THEN CHOOSE i \in DOMAIN s : s[i] = c ELSE 0

\* str.upper() and str.lower() of one ASCII character.
ToUpper(c) == IF c \in Range(LowerLetters) THEN UpperLetters[IndexIn(c, LowerLetters)] ELSE c
ToLower(c) == IF c \in Range(UpperLetters) THEN LowerLetters[IndexIn(c, UpperLetters)] ELSE c

LowerStr(s) == [i \in 1..Len(s) |-> ToLower(s[i])]

IsSpace(c) == c \in {" ", "\t", "\n"}

\* str.split() with no argument: the maximal runs of non-whitespace.
RECURSIVE SplitFrom(_, _, _)
SplitFrom(s, i, cur) ==
    IF i > Len(s) THEN (IF cur = <<>> THEN <<>> ELSE <<cur>>)
    ELSE IF IsSpace(s[i])
         THEN (IF cur = <<>> THEN <<>> ELSE <<cur>>) \o SplitFrom(s, i + 1, <<>>)
         ELSE SplitFrom(s, i + 1, Append(cur, s[i]))

Split(s) == SplitFrom(s, 1, <<>>)

RECURSIVE Join(_)
Join(ss) == IF ss = <<>> THEN <<>> ELSE Head(ss) \o Join(Tail(ss))

Take(s, n) == SubSeq(s, 1, IF Len(s) < n THEN Len(s) ELSE n)

\* str(n) for n >= 0.
RECURSIVE Str(_)
Str(n) == IF n < 10 THEN <<Digits[n + 1]>> ELSE Str(n \div 10) \o <<Digits[(n % 10) + 1]>>

\* str.zfill(w) of a string without sign: zeros on the left up to width w.
RECURSIVE Zfill(_, _)
Zfill(s, w) == IF Len(s) >= w THEN s ELSE Zfill(<<"0">> \o s, w)

\* ------------------------------------------------------- code generation

AbbrLen == 5
SeqWidth == 5

stop_words == { <<"d","e">>, <<"d","e","l">>, <<"l","a">>, <<"e","l">>,
                <<"l","o","s">>, <<"l","a","s">>, <<"y">> }

IsStopWord(w) == LowerStr(w) \in stop_words

Words(sector) == SelectSeq(Split(sector), LAMBDA w : ~IsStopWord(w))

\* Abbr without the [:5].
AbbrUntruncated(sector) ==
    LET words == Words(sector)
    IN  IF words = <<>> THEN <<"X","X","X">>
        ELSE Join([i \in 1..Len(words) |-> <<ToUpper(words[i][1])>>])

Abbr(sector) ==
    LET words == Words(sector)
    IN  IF words = <<>> THEN <<"X","X","X">>
        ELSE Take(Join([i \in 1..Len(words) |-> <<ToUpper(words[i][1])>>]), AbbrLen)

CodeHead == <<"V","G","-","M","A","O","-">>

Prefix(sector) == CodeHead \o Abbr(sector) \o <<"-">>

FormatSeq(count) == Zfill(Str(count + 1), SeqWidth)

Generate(sector, count) == Prefix(sector) \o FormatSeq(count)


\* ------------------------------------------------------ table addresses

\* SQL LIKE as SQLite evaluates it: % is any run of characters, _ is any one
\* character, and ASCII letters match without regard to case.
RECURSIVE LikeFrom(_, _, _, _)
LikeFrom(pat, i, s, j) ==
    IF i > Len(pat) THEN j > Len(s)
    ELSE IF pat[i] = "%" THEN \E k \in j..(Len(s) + 1) : LikeFrom(pat, i + 1, s, k)
    ELSE IF j > Len(s) THEN FALSE
    ELSE IF pat[i] = "_" THEN LikeFrom(pat, i + 1, s, j + 1)
    ELSE ToUpper(pat[i]) = ToUpper(s[j]) /\ LikeFrom(pat, i + 1, s, j + 1)

Like(pat, s) == LikeFrom(pat, 1, s, 1)

\* CountByPrefix with a comparison that tells upper case from lower case.
CountByPrefixCaseSensitive(rows, prefix) ==
    Cardinality({i \in DOMAIN rows :
        /\ Len(rows[i].codigo) >= Len(prefix)
        /\ SubSeq(rows[i].codigo, 1, Len(prefix)) = prefix})

\* SELECT COUNT(*) FROM addresses WHERE codigo LIKE prefix || '%'
CountByPrefix(rows, prefix) ==
    Cardinality({i \in DOMAIN rows : Like(prefix \o <<"%">>, rows[i].codigo)})

\* SELECT * FROM addresses WHERE codigo = ?
RowsWithCode(rows, codigo) == {i \in DOMAIN rows : rows[i].codigo = codigo}

\* The columns a request can set, besides codigo.
DataColumns == {"provincia", "municipio", "sector", "calle", "numero", "referencia",
                "lat", "lng", "verificado", "fuente", "creado_por", "notas"}

\* The Address model: codigo optional, sector, lat and lng required, the rest
\* optional with the defaults of the class.
Address(codigo, sector, lat, lng) ==
    [codigo |-> codigo, provincia |-> Some("Valverde"), municipio |-> Some("Mao"),
     sector |-> sector, calle |-> None, numero |-> None, referencia |-> None,
     lat |-> lat, lng |-> lng, verificado |-> Some(0), fuente |-> Some("equipo"),
     creado_por |-> Some("API"), notas |-> None]

\* The row that INSERT writes for a draft under the code chosen for it.
NewRow(rows, codigo, address, now) ==
    [id |-> Len(rows) + 1, codigo |-> codigo,
     provincia |-> address.provincia, municipio |-> address.municipio,
     sector |-> Some(address.sector), calle |-> address.calle,
     numero |-> address.numero, referencia |-> address.referencia,
     lat |-> Some(address.lat), lng |-> Some(address.lng),
     verificado |-> address.verificado, fuente |-> address.fuente,
     creado_por |-> address.creado_por, notas |-> address.notas,
     fecha_creacion |-> now]

\* The column codigo without UNIQUE.
NoUniqueConstraint(rows, codigo) == FALSE

\* codigo TEXT UNIQUE NOT NULL: the INSERT raises IntegrityError on a duplicate.
UniqueViolation(rows, codigo) == RowsWithCode(rows, codigo) # {}

\* UpdateFields without the `value is not None` test.
UpdateFieldsWithNulls(patch) == {f \in DOMAIN patch : f # "codigo"}

\* The SET list update_address builds from the body: the fields that were
\* sent, are not codigo and are not null.
UpdateFields(patch) == {f \in DOMAIN patch : f # "codigo" /\ patch[f] # None}

\* ApplyUpdate without the WHERE clause.
ApplyUpdateEveryRow(rows, codigo, patch) ==
    [i \in DOMAIN rows |->
        [f \in DOMAIN rows[i] |->
            IF f \in UpdateFields(patch) THEN patch[f] ELSE rows[i][f]]]

\* UPDATE addresses SET <fields> WHERE codigo = ?
ApplyUpdate(rows, codigo, patch) ==
    [i \in DOMAIN rows |->
        IF rows[i].codigo = codigo
        THEN [f \in DOMAIN rows[i] |->
                IF f \in UpdateFields(patch) THEN patch[f] ELSE rows[i][f]]
        ELSE rows[i]]


\* ----------------------------------------------------------------- inputs

MaxInFlight == 2
MaxRows == 3
MaxClock == 2
MaxSectorLen == 3

SecCentro == <<"C","e","n","t","r","o">>
SecLaCeiba == <<"L","a"," ","C","e","i","b","a">>
SecEmpty == <<>>
SecLosJardines == <<"S","e","c","t","o","r"," ","L","o","s"," ",
                    "J","a","r","d","i","n","e","s">>
Sec27Febrero == <<"2","7"," ","d","e"," ","F","e","b","r","e","r","o">>
SecSevenWords == <<"a"," ","b"," ","c"," ","d"," ","e"," ","f"," ","g">>

Sectors == {SecCentro, SecLaCeiba, SecEmpty}

Prefixes == {Prefix(s) : s \in Sectors}

CodeC2 == <<"V","G","-","M","A","O","-","C","-","0","0","0","0","2">>
CodeLower == <<"v","g","-","m","a","o","-","c","-","x">>
CodeOther == <<"Z","9">>

\* Bodies of an insert.
Drafts ==
    { Address(None, SecCentro, 18, -71),
      Address(Some(<<>>), SecEmpty, 18, -71),
      Address(Some(CodeC2), SecCentro, 18, -71),
      Address(Some(CodeLower), SecLaCeiba, 18, -71) }

\* Bodies of an insert that omit the code.
AutoDrafts == {Address(None, s, 18, -71) : s \in Sectors}

\* The codigo of an update's path.
PathCodes == {Generate(SecCentro, 0), CodeOther}

\* Bodies of an update (AddressUpdate with exclude_unset): codigo is required,
\* every other field is absent, null or a value.
Patches ==
    { [codigo |-> CodeC2, sector |-> None],
      [codigo |-> CodeOther, sector |-> Some(SecEmpty)],
      [codigo |-> CodeC2, calle |-> Some("Duarte"), lat |-> Some(19), lng |-> None] }

Times == 1..MaxClock

\* CURRENT_TIMESTAMP does not run behind the rows already written.
LatestTime(rows) ==
    IF rows = <<>> THEN 1
    ELSE CHOOSE t \in Times : /\ \E i \in DOMAIN rows : rows[i].fecha_creacion = t
                              /\ \A i \in DOMAIN rows : rows[i].fecha_creacion <= t

\* ------------------------------------------------------------------ state

\* store    : the rows of the table addresses, in the order of their ids
\* inflight : the requests between two of their SQL statements, each with the
\*            handler's local variables (a bag: the server runs handlers
\*            concurrently and two of them may hold equal values)
\* resp     : the latest response sent (status 0: none yet)
\* lastGen  : per prefix, the latest code generated for it and inserted
\*            (<<>>: none yet)
\* since    : per prefix, the number of rows inserted since then whose code
\*            the count of that prefix counts
\* gSector, gCount, gCode : an input of the code generation and its result

NoResponse == [status |-> 0, detail |-> ""]
Ok == [status |-> 200, detail |-> ""]
DuplicateCode == [status |-> 400, detail |-> "El codigo ya existe"]
NothingToUpdate == [status |-> 400, detail |-> "No hay campos para actualizar"]
NotFound == [status |-> 404, detail |-> "Direccion no encontrada"]

DbInit ==
    /\ store = <<>>
    /\ inflight = EmptyBag
    /\ resp = NoResponse
    /\ lastGen = [P \in Prefixes |-> <<>>]
    /\ since = [P \in Prefixes |-> 0]

Init ==
    /\ DbInit
    /\ gSector = <<>>
    /\ gCount = 0
    /\ gCode = None

Requests == BagToSet(inflight)

Inserting == {r \in Requests : r.kind = "insert"}

Updating == {r \in Requests : r.kind = "update"}

InFlightInserts == BagCardinality([r \in Inserting |-> inflight[r]])

CanStart == BagCardinality(inflight) < MaxInFlight

Enter(r) == inflight' = inflight (+) SetToBag({r})

Leave(r) == inflight' = inflight (-) SetToBag({r})

\* `if not address.codigo`: None and the empty string both ask for a code.
NoCode(address) == address.codigo = None \/ address.codigo = Some(<<>>)

\* InsertRow as INSERT OR REPLACE: the new row takes the place of the old.
InsertOrReplaceRow(codigo, address, now, generated) ==
    /\ now >= LatestTime(store)
    /\ store' = IF UniqueViolation(store, codigo)
                THEN [i \in DOMAIN store |->
                        IF store[i].codigo = codigo
                        THEN [NewRow(store, codigo, address, now) EXCEPT !.id = i]
                        ELSE store[i]]
                ELSE Append(store, NewRow(store, codigo, address, now))
    /\ resp' = Ok
    /\ UNCHANGED <<lastGen, since>>

\* The INSERT of insert_address and its commit, or the IntegrityError turned
\* into a 400. `generated`: whether the handler generated the code.
InsertRow(codigo, address, now, generated) ==
    /\ now >= LatestTime(store)
    /\ IF UniqueViolation(store, codigo)
       THEN /\ resp' = DuplicateCode
            /\ UNCHANGED <<store, lastGen, since>>
       ELSE /\ store' = Append(store, NewRow(store, codigo, address, now))
            /\ resp' = Ok
            /\ lastGen' = [P \in Prefixes |->
                    IF generated /\ P = Prefix(address.sector)
                    THEN codigo ELSE lastGen[P]]
            /\ since' = [P \in Prefixes |->
                    IF generated /\ P = Prefix(address.sector) THEN 0
                    ELSE IF Like(P \o <<"%">>, codigo) THEN since[P] + 1
                    ELSE since[P]]

\* insert_address without a code in the body, up to the INSERT: the code is
\* generated from the prefix count read now.
InsertCount(address) ==
    /\ CanStart
    /\ NoCode(address)
    /\ Len(store) + InFlightInserts < MaxRows
    /\ LET count == CountByPrefix(store, Prefix(address.sector))
       IN  Enter([kind |-> "insert", address |-> address,
                  codigo |-> Generate(address.sector, count), count |-> count])
    /\ UNCHANGED <<store, resp, lastGen, since, genVars>>

\* insert_address without a code in the body, from the INSERT on.
InsertGenerated(r, now) ==
    /\ r \in Inserting
    /\ InsertRow(r.codigo, r.address, now, TRUE)
    /\ Leave(r)
    /\ UNCHANGED genVars

\* insert_address with a code in the body: the code is used as it is, and the
\* INSERT is the handler's only statement on the table.
InsertSupplied(address, now) ==
    /\ CanStart
    /\ ~NoCode(address)
    /\ Len(store) + InFlightInserts < MaxRows
    /\ InsertRow(address.codigo[1], address, now, FALSE)
    /\ UNCHANGED <<inflight, genVars>>

\* update_address up to the existence check: 404 when no row has the code.
UpdateBegin(codigo, patch) ==
    /\ CanStart
    /\ IF RowsWithCode(store, codigo) = {}
       THEN /\ resp' = NotFound
            /\ UNCHANGED inflight
       ELSE /\ UNCHANGED resp
            /\ Enter([kind |-> "update", codigo |-> codigo, patch |-> patch])
    /\ UNCHANGED <<store, lastGen, since, genVars>>

\* UpdateExec answering a body with nothing to set as a success.
UpdateExecNoOp(r) ==
    /\ r \in Updating
    /\ store' = ApplyUpdate(store, r.codigo, r.patch)
    /\ resp' = Ok
    /\ Leave(r)
    /\ UNCHANGED <<lastGen, since, genVars>>

\* The dynamic UPDATE and its commit, or the 400 of a body with nothing to set.
UpdateExec(r) ==
    /\ r \in Updating
    /\ IF UpdateFields(r.patch) = {}
       THEN /\ resp' = NothingToUpdate
            /\ UNCHANGED store
       ELSE /\ store' = ApplyUpdate(store, r.codigo, r.patch)
            /\ resp' = Ok
    /\ Leave(r)
    /\ UNCHANGED <<lastGen, since, genVars>>

Next ==
    \/ \E a \in Drafts : InsertCount(a)
    \/ \E r \in Requests, now \in Times : InsertGenerated(r, now)
    \/ \E a \in Drafts, now \in Times : InsertSupplied(a, now)
    \/ \E c \in PathCodes, patch \in Patches : UpdateBegin(c, patch)
    \/ \E r \in Requests : UpdateExec(r)

Spec == Init /\ [][Next]_vars

\* The histories in which inserts do not overlap: no insert starts while
\* another is between its prefix count and its INSERT. Updates run freely.
NextSeq ==
    \/ InFlightInserts = 0 /\ \E a \in Drafts : InsertCount(a)
    \/ \E r \in Requests, now \in Times : InsertGenerated(r, now)
    \/ InFlightInserts = 0 /\ \E a \in Drafts, now \in Times : InsertSupplied(a, now)
    \/ \E c \in PathCodes, patch \in Patches : UpdateBegin(c, patch)
    \/ \E r \in Requests : UpdateExec(r)

SpecSeq == Init /\ [][NextSeq]_vars

\* The histories made of concurrent inserts that all omit the code.
NextAuto ==
    \/ \E a \in AutoDrafts : InsertCount(a)
    \/ \E r \in Requests, now \in Times : InsertGenerated(r, now)

SpecAuto == Init /\ [][NextAuto]_vars

\* The code generation alone, on sector strings and prefix counts.
GenAlphabet == {"l", "A", " ", "7"}

GenSectors ==
    UNION {[1..k -> GenAlphabet] : k \in 0..MaxSectorLen}
        \cup {SecCentro, SecLaCeiba, SecLosJardines, Sec27Febrero, SecSevenWords}

GenCounts == {0, 8, 9, 99998, 99999}

GenInit ==
    /\ DbInit
    /\ gSector \in GenSectors
    /\ gCount \in GenCounts
    /\ gCode = None

GenApply ==
    /\ gCode = None
    /\ gCode' = Some(Generate(gSector, gCount))
    /\ UNCHANGED <<gSector, gCount, dbVars>>

SpecGen == GenInit /\ [][GenApply]_vars

\* ----------------------------------------------------------------- claims

DigitValue(c) == IndexIn(c, Digits) - 1

RECURSIVE ParseInt(_)
ParseInt(ds) ==
    IF ds = <<>> THEN 0 ELSE 10 * ParseInt(SubSeq(ds, 1, Len(ds) - 1)) + DigitValue(ds[Len(ds)])

\* The sequence number a code carries after its prefix.
SeqOf(codigo, prefix) == ParseInt(SubSeq(codigo, Len(prefix) + 1, Len(codigo)))

PrefixCentro == Prefix(SecCentro)

\* The fields of a body that are present and not null, codigo aside.
ApplicableFields(patch) == {f \in DataColumns : f \in DOMAIN patch /\ patch[f] # None}

\* VG-MAO-<k uppercase letters>-<5 digits> with 1 <= k <= 5.
MatchesCodePattern(codigo) ==
    \E k \in 1..5 :
        /\ Len(codigo) = 7 + k + 1 + 5
        /\ SubSeq(codigo, 1, 7) = <<"V","G","-","M","A","O","-">>
        /\ \A i \in 8..(7 + k) : codigo[i] \in Range(UpperLetters)
        /\ codigo[8 + k] = "-"
        /\ \A i \in (9 + k)..(13 + k) : codigo[i] \in Range(Digits)

IsLetter(c) == c \in Range(LowerLetters) \cup Range(UpperLetters)

\* The tokens the abbreviation is taken from all begin with a letter.
LeadingLetters(sector) ==
    \A i \in 1..Len(Words(sector)) : i <= 5 => IsLetter(Words(sector)[i][1])

\* C1: no two rows of the table have the same codigo, whatever inserts and
\* updates have run and however they interleaved.
C1_CodesUnique ==
    \A i, j \in DOMAIN store : i # j => store[i].codigo # store[j].codigo

C1_Witness ==
    /\ resp = DuplicateCode
    /\ \E i, j \in DOMAIN store : i # j

\* C2: when only inserts that omit the code run, concurrently, none of them is
\* answered with the duplicate-code error: each is persisted under its own code.
C2_ConcurrentInsertsAllPersist == resp # DuplicateCode

\* C3: a step of an update request, failing or not, leaves the number of rows,
\* every row's codigo, id and fecha_creacion, and every row whose codigo is not
\* the path's as they were.
C3_UpdateKeepsIdentity ==
    [][ /\ \A c \in PathCodes, patch \in Patches : UpdateBegin(c, patch) => store' = store
        /\ \A r \in Requests : UpdateExec(r) =>
              /\ Len(store') = Len(store)
              /\ \A i \in DOMAIN store :
                    /\ store'[i].codigo = store[i].codigo
                    /\ store'[i].fecha_creacion = store[i].fecha_creacion
                    /\ store'[i].id = store[i].id
                    /\ store[i].codigo # r.codigo => store'[i] = store[i] ]_vars

C3_Witness ==
    /\ resp = Ok
    /\ \E i, j \in DOMAIN store :
          /\ store[i].calle = Some("Duarte")
          /\ store[i].sector = Some(SecEmpty)
          /\ store[j].codigo = CodeC2
          /\ store[j].calle = None

\* C4: a successful update gives the row of the path's code the body's value in
\* every field the body holds with a value, and leaves its other fields alone.
C4_UpdateAppliesPatch ==
    [][ \A r \in Requests : (UpdateExec(r) /\ resp' = Ok) =>
          \A i \in DOMAIN store : store[i].codigo = r.codigo =>
              \A f \in DataColumns :
                  store'[i][f] = IF f \in ApplicableFields(r.patch)
                                 THEN r.patch[f] ELSE store[i][f] ]_vars

C4_Witness ==
    /\ resp = Ok
    /\ inflight = EmptyBag
    /\ \E i \in DOMAIN store :
          /\ store[i].calle = Some("Duarte")
          /\ store[i].lat = Some(19)
          /\ store[i].lng = Some(-71)
          /\ store[i].sector = Some(SecCentro)
          /\ store[i].notas = None

\* C5: an insert whose body carries the code of an existing row is answered
\* with the duplicate-code error and leaves the table as it was.
C5_DuplicateInsertRejected ==
    [][ \A a \in Drafts, now \in Times :
          (InsertSupplied(a, now) /\ \E i \in DOMAIN store : store[i].codigo = a.codigo[1])
              => (resp' = DuplicateCode /\ store' = store) ]_vars

C5_Witness ==
    /\ resp = DuplicateCode
    /\ inflight = EmptyBag
    /\ Len(store) = 1
    /\ store[1].codigo = CodeLower

\* C6: an update of an existing row whose body has no field with a value,
\* codigo aside, is answered with the nothing-to-update error and leaves the
\* table as it was.
C6_EmptyPatchRejected ==
    [][ \A r \in Requests : (UpdateExec(r) /\ ApplicableFields(r.patch) = {}) =>
          (resp' = NothingToUpdate /\ store' = store) ]_vars

C6_Witness ==
    /\ resp = NothingToUpdate
    /\ Len(store) >= 1

\* C7 as claimed: when inserts do not overlap, each code generated for a prefix
\* and inserted carries the sequence number of the previous one plus 1.
C7_SeqStepsByOne ==
    [][ \A r \in Requests, now \in Times :
          LET P == Prefix(r.address.sector)
          IN  (InsertGenerated(r, now) /\ resp' = Ok /\ lastGen[P] # <<>>) =>
                  SeqOf(r.codigo, P) = SeqOf(lastGen[P], P) + 1 ]_vars

\* C7 as amended: when inserts do not overlap, each code generated for a prefix
\* and inserted carries the sequence number of the previous one, plus 1, plus
\* the number of rows inserted in between whose code the prefix count counts.
C7_SeqStepsByCounted ==
    [][ \A r \in Requests, now \in Times :
          LET P == Prefix(r.address.sector)
          IN  (InsertGenerated(r, now) /\ resp' = Ok /\ lastGen[P] # <<>>) =>
                  SeqOf(r.codigo, P) = SeqOf(lastGen[P], P) + 1 + since[P] ]_vars

C7_Witness ==
    /\ Len(store) = 3
    /\ store[1].codigo = Generate(SecCentro, 0)
    /\ store[2].codigo = CodeLower
    /\ store[3].codigo = Generate(SecCentro, 2)
    /\ lastGen[PrefixCentro] = store[3].codigo

\* C8: the sector of every row is a non-empty string.
C8_SectorNonEmpty ==
    \A i \in DOMAIN store : store[i].sector # None /\ store[i].sector[1] # <<>>

\* C9 as claimed: the code generated for a sector with a token that is no stop
\* word, under any prefix count, is VG-MAO-<1 to 5 uppercase letters>-<5 digits>.
C9_FormatAlways ==
    (gCode # None /\ Words(gSector) # <<>>) => MatchesCodePattern(gCode[1])

\* C9 as amended: the code has that form when, besides, the tokens the
\* abbreviation is taken from begin with a letter and the count is below 99999.
C9_FormatForLettersAndSmallCounts ==
    (gCode # None /\ Words(gSector) # <<>> /\ LeadingLetters(gSector) /\ gCount + 1 < 100000)
        => MatchesCodePattern(gCode[1])

C9_Witness ==
    /\ gSector = SecSevenWords
    /\ gCount = 99998
    /\ gCode = Some(<<"V","G","-","M","A","O","-","A","B","C","D","E","-",
                      "9","9","9","9","9">>)

\* C10: when inserts do not overlap, the code generated for an insert is the
\* code of no row, so the insert is not answered with the duplicate-code error.
C10_GeneratedCodeIsFree ==
    \A r \in Inserting : RowsWithCode(store, r.codigo) = {}

====
